---- MODULE Spec2Model ----
(***************************************************************************)
(* Model of analyze-errors.py: a sequential script that reads a file of    *)
(* TypeScript compiler diagnostics, tallies the lines by error code and by *)
(* file path, and prints two ranked reports.                               *)
(*                                                                         *)
(* Text is modelled character by character: a string is a sequence of      *)
(* one-character strings, standard output and standard error are character *)
(* streams, and the two regular expressions, str.split, str.startswith,    *)
(* the f-string formatting and sorted() are operators over such sequences. *)
(***************************************************************************)
EXTENDS Naturals, Integers, Sequences, FiniteSets

VARIABLES
    argv,         \* sys.argv: <<program>> or <<program, path>>
    fileStatus,   \* environment: what open(INPUT_FILE) does ("ok", "missing", or an OSError class)
    content,      \* environment: the text of the file when it can be read
    errors,       \* the script's variable `errors` (the text read)
    lines,        \* the list a scanning loop iterates: errors.split('\n')
    i,            \* position of the running for-loop in its list (1-based)
    error_types,  \* defaultdict(list), in insertion order: sequence of [key, lines]
    file_errors,  \* defaultdict(list), in insertion order: sequence of [key, lines]
    ranked,       \* the list a printing loop iterates: sorted(...) or sorted(...)[:20]
    stdout,       \* characters written to sys.stdout
    stderr,       \* characters written to sys.stderr
    exit_code,    \* process exit status, meaningful once pc = "done"
    pc            \* position of the script

vars == <<argv, fileStatus, content, errors, lines, i, error_types,
          file_errors, ranked, stdout, stderr, exit_code, pc>>

----------------------------------------------------------------------------
(* Bounds of the checked inputs *)

MaxLines == 3    \* Spec: number of input lines drawn from PoolLines
MaxParts == 2    \* SpecScan: number of text parts concatenated into the input
MaxFiles == 22   \* SpecTop: number of distinct file paths in the input

----------------------------------------------------------------------------
(* Literal text of the program *)

NL == "\n"
DefaultFile == <<"t","s","-","e","r","r","o","r","s",".","t","x","t">>
MsgA == <<"E","r","r","o","r",":"," ","'">>
MsgB == <<"'"," ","n","o","t"," ","f","o","u","n","d","."," ","R","u","n"," ","'","n","p","x"," ","t","s","c"," ","-","-","n","o","E","m","i","t"," ","2",">"," ">>
MsgC == <<"'"," ","f","i","r","s","t",".">>
Heading == <<"F","i","l","e","s"," ","w","i","t","h"," ","m","o","s","t"," ","e","r","r","o","r","s",":">>
NodeModules == <<"n","o","d","e","_","m","o","d","u","l","e","s">>
ErrorSp == <<"e","r","r","o","r"," ">>
TS == <<"T","S">>
Suffix == <<" ","e","r","r","o","r","s">>
SepWidth == 60
TopN == 20
Digit == {"0","1","2","3","4","5","6","7","8","9"}
DigitChars == <<"0","1","2","3","4","5","6","7","8","9">>

(* What the interpreter writes for an uncaught exception, abridged to its  *)
(* first line and the exception class (frames and message left out).       *)
TracebackHead == <<"T","r","a","c","e","b","a","c","k"," ","(","m","o","s","t"," ","r","e","c","e","n","t"," ","c","a","l","l"," ","l","a","s","t",")",":">>
PermissionErrorText == <<"P","e","r","m","i","s","s","i","o","n","E","r","r","o","r">>
IsADirectoryErrorText == <<"I","s","A","D","i","r","e","c","t","o","r","y","E","r","r","o","r">>
OtherOSErrors == {"PermissionError", "IsADirectoryError"}
ExcText(e) == IF e = "PermissionError" THEN PermissionErrorText ELSE IsADirectoryErrorText

----------------------------------------------------------------------------
(* String helpers *)

Min(a, b) == IF a < b THEN a ELSE b

\* s * n for a one-character string
Repeat(c, n) == [k \in 1..n |-> c]

\* s.startswith(p)
StartsWith(s, p) == Len(s) >= Len(p) /\ SubSeq(s, 1, Len(p)) = p

\* str(n) for n >= 0, as format() renders an int inside an f-string
RECURSIVE Str(_)
Str(n) == IF n < 10 THEN <<DigitChars[n + 1]>>
          ELSE Str(n \div 10) \o <<DigitChars[(n % 10) + 1]>>

\* s.split('\n'): always at least one piece; a trailing newline gives a last empty piece
RECURSIVE SplitFrom(_, _)
SplitFrom(s, start) ==
    LET nl == {p \in start..Len(s) : s[p] = NL}
    IN IF nl = {} THEN <<SubSeq(s, start, Len(s))>>
       ELSE LET p == CHOOSE q \in nl : \A r \in nl : q <= r
            IN <<SubSeq(s, start, p - 1)>> \o SplitFrom(s, p + 1)
Split(s) == SplitFrom(s, 1)

\* what print(s) writes: the text and a newline
WriteLine(out, s) == out \o s \o <<NL>>

----------------------------------------------------------------------------
(* INPUT_FILE = sys.argv[1] if len(sys.argv) > 1 else 'ts-errors.txt' *)
INPUT_FILE == IF Len(argv) > 1 THEN argv[2] ELSE DefaultFile

\* f"Error: '{INPUT_FILE}' not found. Run 'npx tsc --noEmit 2> {INPUT_FILE}' first."
Guidance(f) == MsgA \o f \o MsgB \o f \o MsgC

\* stderr text of an uncaught exception of class e
Traceback(e) == TracebackHead \o <<NL>> \o ExcText(e) \o <<NL>>

----------------------------------------------------------------------------
(* The regular expressions *)

NoMatch == [found |-> FALSE, group1 |-> <<>>]

\* mutant of DigitsEnd: \d in place of \d+
DigitsEndOne(line, p) == p

\* end of the greedy \d+ that starts at p (p holds a digit)
RECURSIVE DigitsEnd(_, _)
DigitsEnd(line, p) ==
    IF p + 1 <= Len(line) /\ line[p + 1] \in Digit THEN DigitsEnd(line, p + 1) ELSE p

\* r'error (TS\d+)' matched at position p exactly
MatchCodeAt(line, p) ==
    /\ p + 8 <= Len(line)
    /\ SubSeq(line, p, p + 5) = ErrorSp
    /\ SubSeq(line, p + 6, p + 7) = TS
    /\ line[p + 8] \in Digit

RECURSIVE SearchCodeFrom(_, _)
SearchCodeFrom(line, p) ==
    IF p > Len(line) THEN NoMatch
    ELSE IF MatchCodeAt(line, p)
         THEN [found |-> TRUE, group1 |-> SubSeq(line, p + 6, DigitsEnd(line, p + 8))]
         ELSE SearchCodeFrom(line, p + 1)

\* re.search(r'error (TS\d+)', line): leftmost match, scanning from the start
ReSearchCode(line) == SearchCodeFrom(line, 1)

\* length of the greedy run of characters other than '(' starting at p
RECURSIVE RunNotParen(_, _)
RunNotParen(line, p) ==
    IF p <= Len(line) /\ line[p] # "(" THEN 1 + RunNotParen(line, p + 1) ELSE 0

\* mutant of ReSearchFile: [^\(]* in place of [^\(]+
ReSearchFileStar(line) ==
    LET n == RunNotParen(line, 1)
    IN IF n + 1 <= Len(line) /\ line[n + 1] = "("
       THEN [found |-> TRUE, group1 |-> SubSeq(line, 1, n)]
       ELSE NoMatch

\* re.search(r'^([^\(]+)\(', line): '^' pins the match to position 1; the
\* greedy class takes the whole run, and giving characters back cannot help
\* because the character after a shorter run is not '('.
ReSearchFile(line) ==
    LET n == RunNotParen(line, 1)
    IN IF n >= 1 /\ n + 1 <= Len(line) /\ line[n + 1] = "("
       THEN [found |-> TRUE, group1 |-> SubSeq(line, 1, n)]
       ELSE NoMatch

----------------------------------------------------------------------------
(* defaultdict(list) and sorted() *)

Keys(d) == {d[k].key : k \in 1..Len(d)}

\* mutant of DictAppend: d[key] = [line], the earlier lines of the key lost
DictAppendOverwrite(d, key, line) ==
    IF key \in Keys(d)
    THEN [k \in 1..Len(d) |->
            IF d[k].key = key THEN [d[k] EXCEPT !.lines = <<line>>] ELSE d[k]]
    ELSE Append(d, [key |-> key, lines |-> <<line>>])

\* d[key].append(line): a missing key is inserted at the end with an empty list first
DictAppend(d, key, line) ==
    IF key \in Keys(d)
    THEN [k \in 1..Len(d) |->
            IF d[k].key = key THEN [d[k] EXCEPT !.lines = Append(@, line)] ELSE d[k]]
    ELSE Append(d, [key |-> key, lines |-> <<line>>])

\* mutant of SortKey: the minus sign forgotten
SortKeyAscending(item) == Len(item.lines)

\* the sort key: lambda x: -len(x[1])
SortKey(item) == 0 - Len(item.lines)

\* insert item after every element whose key is <= its own (keeps the sort stable)
RECURSIVE InsertStable(_, _)
InsertStable(s, item) ==
    IF s = <<>> THEN <<item>>
    ELSE IF SortKey(s[1]) <= SortKey(item)
         THEN <<s[1]>> \o InsertStable(Tail(s), item)
         ELSE <<item>> \o s

\* sorted(d.items(), key=lambda x: -len(x[1])): ascending by key, stable
RECURSIVE Sorted(_)
Sorted(d) ==
    IF d = <<>> THEN <<>>
    ELSE InsertStable(Sorted(SubSeq(d, 1, Len(d) - 1)), d[Len(d)])

\* s[:n]
Slice(s, n) == SubSeq(s, 1, Min(n, Len(s)))

\* f'{key}: {len(lines)} errors'
FormatEntry(item) == item.key \o <<":", " ">> \o Str(Len(item.lines)) \o Suffix

----------------------------------------------------------------------------
(* The script, statement by statement *)

\* lines 7-9: open() and f.read() succeed
OpenRead ==
    /\ pc = "open"
    /\ fileStatus = "ok"
    /\ errors' = content
    /\ lines' = Split(content)
    /\ i' = 1
    /\ pc' = "scan_codes"
    /\ UNCHANGED <<argv, fileStatus, content, error_types, file_errors, ranked,
                   stdout, stderr, exit_code>>

\* mutant of OpenNotFound: file=sys.stderr left out
OpenNotFoundToStdout ==
    /\ pc = "open"
    /\ fileStatus = "missing"
    /\ stdout' = WriteLine(stdout, Guidance(INPUT_FILE))
    /\ exit_code' = 1
    /\ pc' = "done"
    /\ UNCHANGED <<argv, fileStatus, content, errors, lines, i, error_types,
                   file_errors, ranked, stderr>>

\* lines 10-12: open() raises FileNotFoundError
OpenNotFound ==
    /\ pc = "open"
    /\ fileStatus = "missing"
    /\ stderr' = WriteLine(stderr, Guidance(INPUT_FILE))
    /\ exit_code' = 1
    /\ pc' = "done"
    /\ UNCHANGED <<argv, fileStatus, content, errors, lines, i, error_types,
                   file_errors, ranked, stdout>>

\* mutant of OpenFails: `except OSError:` in place of `except FileNotFoundError:`
OpenFailsCaught ==
    /\ pc = "open"
    /\ fileStatus \in OtherOSErrors
    /\ stderr' = WriteLine(stderr, Guidance(INPUT_FILE))
    /\ exit_code' = 1
    /\ pc' = "done"
    /\ UNCHANGED <<argv, fileStatus, content, errors, lines, i, error_types,
                   file_errors, ranked, stdout>>

\* lines 7-9: open() raises an OSError that line 10 does not catch; the
\* interpreter prints the traceback and exits with status 1
OpenFails ==
    /\ pc = "open"
    /\ fileStatus \in OtherOSErrors
    /\ stderr' = stderr \o Traceback(fileStatus)
    /\ exit_code' = 1
    /\ pc' = "done"
    /\ UNCHANGED <<argv, fileStatus, content, errors, lines, i, error_types,
                   file_errors, ranked, stdout>>

\* lines 16-20: one iteration of the first scanning loop
ScanCodeLine ==
    /\ pc = "scan_codes"
    /\ i <= Len(lines)
    /\ LET match == ReSearchCode(lines[i])
       IN error_types' = IF match.found
                         THEN DictAppend(error_types, match.group1, lines[i])
                         ELSE error_types
    /\ i' = i + 1
    /\ UNCHANGED <<argv, fileStatus, content, errors, lines, file_errors, ranked,
                   stdout, stderr, exit_code, pc>>

\* line 22: the first loop is over; sorted(error_types.items(), ...) is evaluated
SortCodes ==
    /\ pc = "scan_codes"
    /\ i > Len(lines)
    /\ ranked' = Sorted(error_types)
    /\ i' = 1
    /\ pc' = "print_codes"
    /\ UNCHANGED <<argv, fileStatus, content, errors, lines, error_types,
                   file_errors, stdout, stderr, exit_code>>

\* line 23: one iteration of the first printing loop
ReportCodeLine ==
    /\ pc = "print_codes"
    /\ i <= Len(ranked)
    /\ stdout' = WriteLine(stdout, FormatEntry(ranked[i]))
    /\ i' = i + 1
    /\ UNCHANGED <<argv, fileStatus, content, errors, lines, error_types,
                   file_errors, ranked, stderr, exit_code, pc>>

\* mutant of ReportSeparator: print("="*60)
ReportSeparatorNoBlank ==
    /\ pc = "print_codes"
    /\ i > Len(ranked)
    /\ stdout' = WriteLine(stdout, Repeat("=", SepWidth))
    /\ pc' = "heading"
    /\ UNCHANGED <<argv, fileStatus, content, errors, lines, i, error_types,
                   file_errors, ranked, stderr, exit_code>>

\* line 25: print("\n" + "="*60)
ReportSeparator ==
    /\ pc = "print_codes"
    /\ i > Len(ranked)
    /\ stdout' = WriteLine(stdout, <<NL>> \o Repeat("=", SepWidth))
    /\ pc' = "heading"
    /\ UNCHANGED <<argv, fileStatus, content, errors, lines, i, error_types,
                   file_errors, ranked, stderr, exit_code>>

\* mutant of ReportHeading: the run gives up after the first table when the
\* input held no error code
ReportHeadingStops ==
    /\ pc = "heading"
    /\ stdout' = WriteLine(stdout, Heading)
    /\ file_errors' = <<>>
    /\ lines' = Split(errors)
    /\ i' = 1
    /\ pc' = IF error_types = <<>> THEN "done" ELSE "scan_files"
    /\ exit_code' = IF error_types = <<>> THEN 1 ELSE exit_code
    /\ UNCHANGED <<argv, fileStatus, content, errors, error_types, ranked, stderr>>

\* lines 26-28: print("Files with most errors:"), a fresh dict, the second split
ReportHeading ==
    /\ pc = "heading"
    /\ stdout' = WriteLine(stdout, Heading)
    /\ file_errors' = <<>>
    /\ lines' = Split(errors)
    /\ i' = 1
    /\ pc' = "scan_files"
    /\ UNCHANGED <<argv, fileStatus, content, errors, error_types, ranked,
                   stderr, exit_code>>

\* mutant of ScanFileLine: the file tally fed only by lines that hold an error code
ScanFileLineCodeOnly ==
    /\ pc = "scan_files"
    /\ i <= Len(lines)
    /\ LET match == ReSearchFile(lines[i])
       IN file_errors' = IF match.found /\ ReSearchCode(lines[i]).found
                         THEN DictAppend(file_errors, match.group1, lines[i])
                         ELSE file_errors
    /\ i' = i + 1
    /\ UNCHANGED <<argv, fileStatus, content, errors, lines, error_types, ranked,
                   stdout, stderr, exit_code, pc>>

\* lines 28-32: one iteration of the second scanning loop
ScanFileLine ==
    /\ pc = "scan_files"
    /\ i <= Len(lines)
    /\ LET match == ReSearchFile(lines[i])
       IN file_errors' = IF match.found
                         THEN DictAppend(file_errors, match.group1, lines[i])
                         ELSE file_errors
    /\ i' = i + 1
    /\ UNCHANGED <<argv, fileStatus, content, errors, lines, error_types, ranked,
                   stdout, stderr, exit_code, pc>>

RECURSIVE WithoutNodeModules(_)
WithoutNodeModules(s) ==
    IF s = <<>> THEN <<>>
    ELSE (IF StartsWith(s[1].key, NodeModules) THEN <<>> ELSE <<s[1]>>)
            \o WithoutNodeModules(Tail(s))

\* mutant of SortFiles: the node_modules entries dropped before the cut to 20
SortFilesFilterFirst ==
    /\ pc = "scan_files"
    /\ i > Len(lines)
    /\ ranked' = Slice(WithoutNodeModules(Sorted(file_errors)), TopN)
    /\ i' = 1
    /\ pc' = "print_files"
    /\ UNCHANGED <<argv, fileStatus, content, errors, lines, error_types,
                   file_errors, stdout, stderr, exit_code>>

\* line 34: the second loop is over; sorted(file_errors.items(), ...)[:20] is evaluated
SortFiles ==
    /\ pc = "scan_files"
    /\ i > Len(lines)
    /\ ranked' = Slice(Sorted(file_errors), TopN)
    /\ i' = 1
    /\ pc' = "print_files"
    /\ UNCHANGED <<argv, fileStatus, content, errors, lines, error_types,
                   file_errors, stdout, stderr, exit_code>>

\* lines 35-36: one iteration of the second printing loop
ReportFileLine ==
    /\ pc = "print_files"
    /\ i <= Len(ranked)
    /\ stdout' = IF ~StartsWith(ranked[i].key, NodeModules)
                 THEN WriteLine(stdout, FormatEntry(ranked[i]))
                 ELSE stdout
    /\ i' = i + 1
    /\ UNCHANGED <<argv, fileStatus, content, errors, lines, error_types,
                   file_errors, ranked, stderr, exit_code, pc>>

\* end of the script: the interpreter exits with status 0
Finish ==
    /\ pc = "print_files"
    /\ i > Len(ranked)
    /\ exit_code' = 0
    /\ pc' = "done"
    /\ UNCHANGED <<argv, fileStatus, content, errors, lines, i, error_types,
                   file_errors, ranked, stdout, stderr>>

Next ==
    \/ OpenRead
    \/ OpenNotFound
    \/ OpenFails
    \/ ScanCodeLine
    \/ SortCodes
    \/ ReportCodeLine
    \/ ReportSeparator
    \/ ReportHeading
    \/ ScanFileLine
    \/ SortFiles
    \/ ReportFileLine
    \/ Finish

----------------------------------------------------------------------------
(* Initial states: the process has started, nothing has run *)

\* '\n'.join(ls)
RECURSIVE Join(_)
Join(ls) ==
    IF ls = <<>> THEN <<>>
    ELSE IF Len(ls) = 1 THEN ls[1]
    ELSE ls[1] \o <<NL>> \o Join(Tail(ls))

RECURSIVE Concat(_)
Concat(ps) == IF ps = <<>> THEN <<>> ELSE ps[1] \o Concat(Tail(ps))

Paths == {<<"e",".","t","x","t">>}
Argvs == {<<<<"p">>>>} \cup {<<<<"p">>, f>> : f \in Paths}

\* the state of a process that has not executed a statement yet; a file that
\* cannot be opened contributes no text
Start(a, st, text) ==
    /\ argv = a
    /\ fileStatus = st
    /\ content = IF st = "ok" THEN text ELSE <<>>
    /\ errors = <<>>
    /\ lines = <<>>
    /\ i = 1
    /\ error_types = <<>>
    /\ file_errors = <<>>
    /\ ranked = <<>>
    /\ stdout = <<>>
    /\ stderr = <<>>
    /\ exit_code = 0
    /\ pc = "open"

Statuses == {"ok", "missing"} \cup OtherOSErrors

\* diagnostics as tsc writes them, shortened, plus lines that match only one
\* pattern or none
PoolLines ==
    { <<"a","(","1",")",":"," ">> \o ErrorSp \o TS \o <<"1">>,
      <<"a","(","2",")",":"," ">> \o ErrorSp \o TS \o <<"2">>,
      <<"b","(","1",")",":"," ">> \o ErrorSp \o TS \o <<"1">>,
      <<"b","(","x">>,
      ErrorSp \o TS \o <<"2">>,
      NodeModules \o <<"/","m","(","1",")",":"," ">> \o ErrorSp \o TS \o <<"3">>,
      <<>> }

Inputs == UNION {[1..n -> PoolLines] : n \in 0..MaxLines}

Init ==
    \E a \in Argvs, st \in Statuses, ls \in Inputs :
        /\ st # "ok" => ls = <<>>
        /\ Start(a, st, Join(ls))

Spec == Init /\ [][Next]_vars

(* SpecScan: the text is a concatenation of short parts, chosen so that the *)
(* patterns meet near misses: other whitespace, missing digits, several     *)
(* candidates on a line, a leading or a missing parenthesis.                *)
Gaps == {<<>>, <<" ">>, <<"\t">>, <<" ", " ">>}
Nums == {<<>>, <<"1">>, <<"1", "2">>, <<"2">>}
Candidates == {<<"e","r","r","o","r">> \o g \o TS \o d : g \in Gaps, d \in Nums}
Parts == Candidates \cup {<<"a">>, <<"(">>, <<" ">>, <<"1">>, <<NL>>, NodeModules \o <<"(">>}

ScanInputs == UNION {[1..n -> Parts] : n \in 0..MaxParts}

InitScan ==
    \E a \in {<<<<"p">>>>}, st \in Statuses, ps \in ScanInputs :
        /\ st # "ok" => ps = <<>>
        /\ Start(a, st, Concat(ps))

SpecScan == InitScan /\ [][Next]_vars

(* SpecTop: more file paths than the report's cap.  File k of n is named by *)
(* the k-th letter; the paths in nm carry the node_modules prefix; with     *)
(* boost, the last path has a second line, which ranks it first.            *)
Letters == <<"a","b","c","d","f","g","h","j","k","l","m","n","p","q","r","s","t","u","v","w","x","y","z","A","B","C">>
NMSlots == {1, 5, TopN, TopN + 1, TopN + 2}

FileName(k, nm) ==
    IF k \in nm THEN NodeModules \o <<"/", Letters[k]>> ELSE <<Letters[k]>>

TopLine(k, nm) ==
    FileName(k, nm) \o <<"(">> \o ErrorSp \o TS \o (IF k % 2 = 0 THEN <<"2">> ELSE <<"1">>)

TopInput(n, nm, boost) ==
    [k \in 1..n |-> TopLine(k, nm)] \o (IF boost THEN <<TopLine(n, nm)>> ELSE <<>>)

InitTop ==
    \E st \in Statuses, n \in (MaxFiles - 3)..MaxFiles, nm \in SUBSET NMSlots,
       boost \in BOOLEAN :
        /\ st # "ok" => (n = MaxFiles /\ nm = {} /\ ~boost)
        /\ Start(<<<<"p">>>>, st, Join(TopInput(n, nm, boost)) \o <<NL>>)

SpecTop == InitTop /\ [][Next]_vars

----------------------------------------------------------------------------
(* What the tallies and the reports are expected to be, stated from the    *)
(* input text alone (positions and sets, no scanning); ls is the sequence  *)
(* of input lines.                                                         *)

SetMin(S) == CHOOSE x \in S : \A y \in S : x <= y
SetMax(S) == CHOOSE x \in S : \A y \in S : x >= y

InLines == Split(content)

\* positions where 'error', one space, 'TS' and a digit stand
CodeStarts(l) ==
    {p \in 1..Len(l) :
        /\ p + 8 <= Len(l)
        /\ l[p] = "e" /\ l[p + 1] = "r" /\ l[p + 2] = "r" /\ l[p + 3] = "o" /\ l[p + 4] = "r"
        /\ l[p + 5] = " "
        /\ l[p + 6] = "T" /\ l[p + 7] = "S"
        /\ l[p + 8] \in Digit}
HasCode(l) == CodeStarts(l) # {}
\* the token at the leftmost such position, with all the digits that follow
CodeOf(l) ==
    LET p == SetMin(CodeStarts(l))
        q == SetMax({e \in (p + 8)..Len(l) : \A r \in (p + 8)..e : l[r] \in Digit})
    IN SubSeq(l, p + 6, q)

\* the text before the first '(' of a line
Parens(l) == {p \in 1..Len(l) : l[p] = "("}
HasFile(l) == Parens(l) # {} /\ SetMin(Parens(l)) > 1
FileOf(l) == SubSeq(l, 1, SetMin(Parens(l)) - 1)

CodeLinesOf(ls, k) == {j \in 1..Len(ls) : HasCode(ls[j]) /\ CodeOf(ls[j]) = k}
FileLinesOf(ls, k) == {j \in 1..Len(ls) : HasFile(ls[j]) /\ FileOf(ls[j]) = k}
CodeKeys(ls) == {CodeOf(ls[j]) : j \in {x \in 1..Len(ls) : HasCode(ls[x])}}
FileKeys(ls) == {FileOf(ls[j]) : j \in {x \in 1..Len(ls) : HasFile(ls[x])}}

\* per key: its count and the input line it is first met on
CodeStats(ls) ==
    {[key |-> k, n |-> Cardinality(CodeLinesOf(ls, k)), first |-> SetMin(CodeLinesOf(ls, k))] :
        k \in CodeKeys(ls)}
FileStats(ls) ==
    {[key |-> k, n |-> Cardinality(FileLinesOf(ls, k)), first |-> SetMin(FileLinesOf(ls, k))] :
        k \in FileKeys(ls)}

\* a stands before b in a ranking by descending count, first encounter breaking ties
Before(a, b) == a.n > b.n \/ (a.n = b.n /\ a.first < b.first)

\* the entries in rank order
Ranking(stats) ==
    [p \in 1..Cardinality(stats) |->
        CHOOSE t \in stats : Cardinality({u \in stats : Before(u, t)}) = p - 1]

IsNodeModules(k) == Len(k) >= 12 /\ \A p \in 1..12 : k[p] = NodeModules[p]

RECURSIVE DropNodeModules(_)
DropNodeModules(s) ==
    IF s = <<>> THEN <<>>
    ELSE (IF IsNodeModules(s[1].key) THEN <<>> ELSE <<s[1]>>) \o DropNodeModules(Tail(s))

ReportLine(k, n) == k \o <<":", " ">> \o Str(n) \o Suffix
ReportLines(r) == [p \in 1..Len(r) |-> ReportLine(r[p].key, r[p].n)]

ExpectedCodeLines(ls) == ReportLines(Ranking(CodeStats(ls)))

\* the first 20 of the ranking, then without the node_modules keys
TopFiles(ls) == LET r == Ranking(FileStats(ls)) IN SubSeq(r, 1, Min(20, Len(r)))
ShownFiles(ls) == DropNodeModules(TopFiles(ls))
ExpectedFileLines(ls) == ReportLines(ShownFiles(ls))

SeparatorLine == [k \in 1..60 |-> "="]

\* standard output as the lines written so far (every write ends its line)
StdoutLines ==
    IF stdout = <<>> THEN <<>>
    ELSE LET ps == Split(stdout) IN SubSeq(ps, 1, Len(ps) - 1)
StdoutWhole == stdout = <<>> \/ stdout[Len(stdout)] = NL

\* the error-code report is over once the separator has been written
Succeeded == pc = "done" /\ fileStatus = "ok"
CodesReported == pc \in {"heading", "scan_files", "print_files", "done"} /\ fileStatus = "ok"
BlankIn(out) == SetMin({p \in 1..Len(out) : out[p] = <<>>})
CodeSectionOf(out) == SubSeq(out, 1, BlankIn(out) - 1)
FileSectionOf(out) == SubSeq(out, BlankIn(out) + 3, Len(out))
CodeSection == CodeSectionOf(StdoutLines)
FileSection == FileSectionOf(StdoutLines)

\* the entry of a tally
Count(d, k) == IF k \in Keys(d) THEN Len(d[CHOOSE e \in 1..Len(d) : d[e].key = k].lines) ELSE 0
Occurs(seq, x) == Cardinality({p \in 1..Len(seq) : seq[p] = x})
\* line l is stored under key k of tally d / under some key of d
FiledUnder(d, k, l) == \E e \in 1..Len(d) : d[e].key = k /\ Occurs(d[e].lines, l) >= 1
Filed(d, l) == \E e \in 1..Len(d) : Occurs(d[e].lines, l) >= 1
FiledOnlyUnder(d, k, l) == \A e \in 1..Len(d) : Occurs(d[e].lines, l) >= 1 => d[e].key = k
RECURSIVE Total(_)
Total(d) == IF d = <<>> THEN 0 ELSE Len(d[1].lines) + Total(Tail(d))

----------------------------------------------------------------------------
(* Properties *)

\* where the line of key k stands in a report (0: nowhere)
CodePosIn(section, k) ==
    LET at == {p \in 1..Len(section) :
                  section[p] = ReportLine(k, Count(error_types, k))}
    IN IF at = {} THEN 0 ELSE SetMin(at)

RankedIn(section, ls) ==
    /\ Len(section) = Cardinality(Keys(error_types))
    /\ \A k \in Keys(error_types) :
          Cardinality({p \in 1..Len(section) :
              section[p] = ReportLine(k, Count(error_types, k))}) = 1
    /\ \A k1, k2 \in Keys(error_types) :
          \/ Count(error_types, k1) > Count(error_types, k2)
          \/ /\ Count(error_types, k1) = Count(error_types, k2)
             /\ SetMin(CodeLinesOf(ls, k1)) < SetMin(CodeLinesOf(ls, k2))
          => CodePosIn(section, k1) < CodePosIn(section, k2)

\* C1: once the error-code report is written, every key of the error-code
\* tally has exactly one line in it and the report has no other line; a key
\* with a larger count stands before a key with a smaller one, and of two
\* keys with equal counts the one first met in the input stands first.
C1_CodeReportRanked == CodesReported => RankedIn(CodeSection, InLines)

LaterKeyFirst(section, ls) ==
    \E k1, k2 \in Keys(error_types) :
        /\ Count(error_types, k1) > Count(error_types, k2)
        /\ SetMin(CodeLinesOf(ls, k1)) > SetMin(CodeLinesOf(ls, k2))
        /\ CodePosIn(section, k1) = 1
        /\ CodePosIn(section, k2) = 2

\* C1 witness: a finished run where the key met later has the larger count
\* and leads the report
C1_Witness == Succeeded /\ LaterKeyFirst(CodeSection, InLines)

Conserved(ls) ==
    /\ Total(error_types) = Cardinality({j \in 1..Len(ls) : HasCode(ls[j])})
    /\ Total(file_errors) = Cardinality({j \in 1..Len(ls) : HasFile(ls[j])})
    /\ Len(error_types) = Cardinality(Keys(error_types))
    /\ Len(file_errors) = Cardinality(Keys(file_errors))
    /\ \A j \in 1..Len(ls) : \A e \in 1..Len(error_types) :
          Occurs(error_types[e].lines, ls[j]) =
             IF HasCode(ls[j]) /\ CodeOf(ls[j]) = error_types[e].key
             THEN Occurs(ls, ls[j]) ELSE 0
    /\ \A j \in 1..Len(ls) : \A e \in 1..Len(file_errors) :
          Occurs(file_errors[e].lines, ls[j]) =
             IF HasFile(ls[j]) /\ FileOf(ls[j]) = file_errors[e].key
             THEN Occurs(ls, ls[j]) ELSE 0

\* C5: after the scans the counts of the error-code tally add up to the
\* number of input lines holding the error-code pattern and those of the file
\* tally to the number of lines holding the file-path pattern; a line is
\* stored under the key it yields as often as it occurs in the input and
\* under no other key; no key has two entries.
C5_CountConservation == Succeeded => Conserved(InLines)

UnevenTallies(ls) ==
    /\ \E e \in 1..Len(error_types) : Len(error_types[e].lines) >= 2
    /\ \E j \in 1..Len(ls) : ~HasCode(ls[j]) /\ HasFile(ls[j])
    /\ Total(error_types) # Total(file_errors)

\* C5 witness: a finished run with a repeated key, a line in one tally only
\* and different totals
C5_Witness == Succeeded /\ UnevenTallies(InLines)

\* C8 (amended): the standard output of a finished run is the error-code
\* lines, an empty line, the line of 60 '=', the heading, the file lines, and
\* nothing else.
C8_OutputWithBlankLine ==
    Succeeded =>
        /\ StdoutWhole
        /\ StdoutLines = ExpectedCodeLines(InLines) \o <<<<>>, SeparatorLine, Heading>>
                            \o ExpectedFileLines(InLines)

\* C8 as stated: no empty line anywhere in the output
C8_OutputAsClaimed ==
    Succeeded =>
        /\ StdoutWhole
        /\ StdoutLines = ExpectedCodeLines(InLines) \o <<SeparatorLine, Heading>>
                            \o ExpectedFileLines(InLines)

BothReportsFilled(out, ls) ==
    /\ Len(ExpectedCodeLines(ls)) >= 2
    /\ Len(ExpectedFileLines(ls)) >= 1
    /\ Len(out) = Len(ExpectedCodeLines(ls)) + Len(ExpectedFileLines(ls)) + 3
    /\ out[Len(ExpectedCodeLines(ls)) + 1] = <<>>

\* C8 witness: a finished run that printed lines in both reports, the empty
\* line between them
C8_Witness == Succeeded /\ BothReportsFilled(StdoutLines, InLines)

TopTwentyThenFilter(section, ls) ==
    LET r == Ranking(FileStats(ls))
        top == SubSeq(r, 1, Min(20, Len(r)))
        dropped == {p \in 1..Len(top) : IsNodeModules(top[p].key)}
    IN /\ Len(section) <= 20
       /\ \A p \in 1..Len(section) :
             /\ \E q \in 1..Len(top) : section[p] = ReportLine(top[q].key, top[q].n)
             /\ ~StartsWith(section[p], NodeModules)
       /\ \A q \in (Len(top) + 1)..Len(r) :
             \A p \in 1..Len(section) : section[p] # ReportLine(r[q].key, r[q].n)
       /\ Len(r) >= 20 => Len(section) = 20 - Cardinality(dropped)
       /\ section = ExpectedFileLines(ls)

\* C2: in a finished run the file report has at most 20 lines, each the line
\* of a key among the first 20 of the unfiltered ranking (descending count,
\* first encounter breaking ties) and none of a node_modules key; no key
\* ranked 21st or later is printed; with 20 or more keys and k node_modules
\* keys among the first 20, exactly 20 - k lines are printed, in rank order.
C2_TruncateThenFilter == Succeeded => TopTwentyThenFilter(FileSection, InLines)

NotBackfilled(section, ls) ==
    LET r == Ranking(FileStats(ls))
    IN /\ Len(r) > 20
       /\ \E p \in 1..20 : IsNodeModules(r[p].key)
       /\ ~IsNodeModules(r[21].key)
       /\ Len(section) < 20

\* C2 witness: a finished run with more than 20 file keys, a node_modules key
\* among the first 20, a printable key at rank 21, and fewer than 20 lines
C2_Witness == Succeeded /\ NotBackfilled(FileSection, InLines)

IsGuidance(text) ==
    LET f == IF Len(argv) = 2 THEN argv[2] ELSE DefaultFile
    IN text = MsgA \o f \o MsgB \o f \o MsgC \o <<NL>>

\* C3: when the file does not exist, nothing is ever written to standard
\* output and no line is read or tallied; the run ends with the one guidance
\* line on standard error and exit status 1.
C3_MissingFile ==
    fileStatus = "missing" =>
        /\ stdout = <<>>
        /\ errors = <<>> /\ lines = <<>> /\ ranked = <<>>
        /\ error_types = <<>> /\ file_errors = <<>>
        /\ pc \in {"open", "done"}
        /\ pc = "open" => stderr = <<>>
        /\ pc = "done" => IsGuidance(stderr) /\ exit_code = 1

\* C3 witness: the run on a missing file has ended
C3_Witness == fileStatus = "missing" /\ pc = "done" /\ stderr # <<>>

\* C4 as stated: whatever keeps the file from being opened, the run ends with
\* the guidance message on standard error and a non-zero status
C4_GuidanceOnEveryFailure ==
    (pc = "done" /\ fileStatus # "ok") => IsGuidance(stderr) /\ exit_code # 0

\* C4 (amended): a run that cannot open the file ends with a non-zero status
\* and text on standard error; that text is the guidance message exactly
\* when the file does not exist (another failure leaves the traceback of
\* the uncaught exception).
C4_GuidanceOnlyWhenMissing ==
    (pc = "done" /\ fileStatus # "ok") =>
        /\ exit_code # 0
        /\ stderr # <<>>
        /\ stdout = <<>>
        /\ IsGuidance(stderr) <=> fileStatus = "missing"

\* C4 witness: a run refused by the file's permissions has ended
C4_Witness ==
    /\ fileStatus = "PermissionError"
    /\ pc = "done"
    /\ exit_code = 1
    /\ SubSeq(stderr, 1, 9) = <<"T","r","a","c","e","b","a","c","k">>

HasBothTables(out) ==
    \E p \in 1..Len(out) :
        /\ p + 2 <= Len(out)
        /\ out[p] = <<>> /\ out[p + 1] = SeparatorLine /\ out[p + 2] = Heading
        /\ p - 1 = Len(error_types)
        /\ Len(out) - (p + 2) =
              Cardinality({q \in 1..Len(ranked) : ~IsNodeModules(ranked[q].key)})

\* C9: a run that has ended either exited with status 0 after writing both
\* tables, or exited with a non-zero status having written nothing to
\* standard output; once the file has been read the run never exits with a
\* failure status and never stops before the end of the script.
C9_NoPartialFailure ==
    /\ pc = "done" =>
          \/ exit_code = 0 /\ StdoutWhole /\ HasBothTables(StdoutLines)
          \/ exit_code # 0 /\ stdout = <<>>
    /\ (fileStatus = "ok" /\ pc # "done") => ENABLED Next
    /\ (fileStatus = "ok" /\ pc = "done") => exit_code = 0
    /\ fileStatus # "ok" => stdout = <<>>

\* C9 witness: a finished run whose first table is not empty
C9_Witness ==
    /\ pc = "done" /\ exit_code = 0
    /\ Len(error_types) >= 1
    /\ HasBothTables(StdoutLines)

Independent(out, ls) ==
    /\ \A j \in 1..Len(ls) :
          /\ (HasFile(ls[j]) /\ ~HasCode(ls[j])) =>
                FiledUnder(file_errors, FileOf(ls[j]), ls[j])
          /\ (HasCode(ls[j]) /\ HasFile(ls[j]) /\ IsNodeModules(FileOf(ls[j]))) =>
                FiledUnder(error_types, CodeOf(ls[j]), ls[j])
    /\ \A k \in CodeKeys(ls) :
          /\ Count(error_types, k) = Cardinality(CodeLinesOf(ls, k))
          /\ \E p \in 1..Len(CodeSectionOf(out)) :
                CodeSectionOf(out)[p] = ReportLine(k, Cardinality(CodeLinesOf(ls, k)))
    /\ \A k \in FileKeys(ls) :
          /\ Count(file_errors, k) = Cardinality(FileLinesOf(ls, k))
          /\ (~IsNodeModules(k) /\ Cardinality(FileKeys(ls)) <= 20) =>
                \E p \in 1..Len(FileSectionOf(out)) :
                   FileSectionOf(out)[p] = ReportLine(k, Cardinality(FileLinesOf(ls, k)))

\* C10: in a finished run a line with a file prefix and no error code is
\* filed in the file tally, and a line of a node_modules path that holds an
\* error code is filed in the error-code tally; the count printed for an
\* error code is the number of all lines holding it, and the count printed
\* for a file (not node_modules, within the cap) is the number of all lines
\* with that prefix, whether or not the lines match the other pattern.
C10_TalliesIndependent == Succeeded => Independent(StdoutLines, InLines)

FileOnlyAndNodeModulesLines(ls) ==
    /\ \E j \in 1..Len(ls) : HasFile(ls[j]) /\ ~HasCode(ls[j])
    /\ \E j \in 1..Len(ls) : HasCode(ls[j]) /\ HasFile(ls[j]) /\ IsNodeModules(FileOf(ls[j]))
    /\ Total(file_errors) > Total(error_types)

\* C10 witness: a finished run over a line with a file prefix only and a
\* node_modules line with a code, the file tally's total the larger
C10_Witness == Succeeded /\ FileOnlyAndNodeModulesLines(InLines)

\* C10, the other direction: a finished run whose error-code total is larger
C10_CodeTotalLarger == Succeeded /\ Total(error_types) > Total(file_errors)

\* the pattern as C6 words it: 'error', one or more whitespace characters,
\* 'TS' and a digit, at position p with a gap of w characters
Whitespace == {" ", "\t"}
LooseCodeStarts(l) ==
    {p \in 1..Len(l) :
        \E w \in 1..Len(l) :
            /\ p + 7 + w <= Len(l)
            /\ SubSeq(l, p, p + 4) = <<"e","r","r","o","r">>
            /\ \A g \in (p + 5)..(p + 4 + w) : l[g] \in Whitespace
            /\ l[p + 5 + w] = "T" /\ l[p + 6 + w] = "S"
            /\ l[p + 7 + w] \in Digit}

CodeExtraction(ls) ==
    \A j \in 1..Len(ls) :
        /\ Filed(error_types, ls[j]) <=> HasCode(ls[j])
        /\ HasCode(ls[j]) =>
              /\ FiledUnder(error_types, CodeOf(ls[j]), ls[j])
              /\ FiledOnlyUnder(error_types, CodeOf(ls[j]), ls[j])

\* C6 (amended): in a finished run a line is in the error-code tally exactly
\* when it holds 'error', one space character, 'TS' and one or more digits;
\* it is filed under the token ('TS' and all the digits that follow) of the
\* leftmost such place and under no other key.
C6_ErrorSpaceToken == Succeeded => CodeExtraction(InLines)

\* C6 as stated: any whitespace between 'error' and the token makes a line count
C6_AnyWhitespace ==
    Succeeded =>
        \A j \in 1..Len(InLines) :
            Filed(error_types, InLines[j]) <=> LooseCodeStarts(InLines[j]) # {}

SeveralCandidates(ls) ==
    \E j \in 1..Len(ls) :
        /\ Cardinality(CodeStarts(ls[j])) >= 2
        /\ Cardinality({SubSeq(ls[j], p + 6, p + 8) : p \in CodeStarts(ls[j])}) >= 2
        /\ FiledUnder(error_types, CodeOf(ls[j]), ls[j])

\* C6 witness: a finished run over a line with two different candidates,
\* filed under the first
C6_Witness == Succeeded /\ SeveralCandidates(InLines)

FileExtraction(ls) ==
    \A j \in 1..Len(ls) :
        /\ Filed(file_errors, ls[j]) <=> (Len(ls[j]) >= 2 /\ ls[j][1] # "(" /\ Parens(ls[j]) # {})
        /\ HasFile(ls[j]) =>
              /\ FiledUnder(file_errors, FileOf(ls[j]), ls[j])
              /\ FiledOnlyUnder(file_errors, FileOf(ls[j]), ls[j])
        /\ (Parens(ls[j]) = {} \/ ls[j][1] = "(") => ~Filed(file_errors, ls[j])

\* C7: in a finished run a line is in the file tally exactly when its first
\* character is not '(' and a '(' follows later; it is filed under the whole
\* text before its first '(' and under no other key; a line without '(' or
\* starting with '(' is in no entry.
C7_FilePrefix == Succeeded => FileExtraction(InLines)

PrefixKept(ls) ==
    \E j \in 1..Len(ls) :
        /\ HasFile(ls[j])
        /\ Cardinality(Parens(ls[j])) >= 2
        /\ FiledUnder(file_errors, FileOf(ls[j]), ls[j])

\* C7 witness: a finished run over a line with two '(' filed under the text
\* before the first
C7_Witness == Succeeded /\ PrefixKept(InLines)

====
